---- MODULE Spec2Model ----
(***************************************************************************)
(* Model of the stack-pointer alignment substitution pass                  *)
(* (substitute_and_on_stackpointer in legacy.rs) over the IR data model    *)
(* of term.rs / def.rs.                                                    *)
(*                                                                         *)
(* Bitvectors (apint::ApInt) and the i64 journal are modelled exactly: a    *)
(* value is its sequence of bytes (0..255), least significant byte first,  *)
(* and its width is 8 times the length.  Nothing is scaled down: an i64    *)
(* has 8 bytes.                                                            *)
(***************************************************************************)
EXTENDS Integers, Sequences, FiniteSets, TLC

(***************************************************************************)
(* Byte-level two's complement arithmetic                                  *)
(***************************************************************************)

\* Size of the i64 journaled stack pointer value, in bytes.
I64Bytes == 8

\* Two's complement bytes of the integer n at a width of w bytes (floor
\* division, so negative numbers sign-extend).  Used to write down the
\* constants of the input programs and the expected values of properties.
RECURSIVE IntBytes(_, _)
IntBytes(n, w) ==
    IF w = 0 THEN <<>> ELSE <<n % 256>> \o IntBytes(n \div 256, w - 1)

\* Bit i (0..7) of a byte.
Bit(x, i) == (x \div (2 ^ i)) % 2

\* Bitwise AND of two bytes.
ByteAnd(x, y) ==
    Bit(x, 0) * Bit(y, 0) + 2 * Bit(x, 1) * Bit(y, 1)
    + 4 * Bit(x, 2) * Bit(y, 2) + 8 * Bit(x, 3) * Bit(y, 3)
    + 16 * Bit(x, 4) * Bit(y, 4) + 32 * Bit(x, 5) * Bit(y, 5)
    + 64 * Bit(x, 6) * Bit(y, 6) + 128 * Bit(x, 7) * Bit(y, 7)

\* Mutant of BitAnd: `|` in the place of `&`.
BitOr(a, b) == [i \in 1..Len(a) |-> a[i] + b[i] - ByteAnd(a[i], b[i])]

\* Bitwise AND of two values of the same width (i64 `&`).
BitAnd(a, b) == [i \in 1..Len(a) |-> ByteAnd(a[i], b[i])]

\* Bitwise complement.
BitNot(a) == [i \in 1..Len(a) |-> 255 - a[i]]

\* a + b + cin at the width of a, wrapping (ripple carry from byte i on,
\* with the lower bytes already in acc).
RECURSIVE Ripple(_, _, _, _, _)
Ripple(a, b, i, c, acc) ==
    IF i > Len(a) THEN acc
    ELSE Ripple(a, b, i + 1, (a[i] + b[i] + c) \div 256,
                Append(acc, (a[i] + b[i] + c) % 256))

AddCarry(a, b, cin) == Ripple(a, b, 1, cin, <<>>)

\* i64 wrapping_add / wrapping_sub.
WrapAdd(a, b) == AddCarry(a, b, 0)
WrapSub(a, b) == AddCarry(a, BitNot(b), 1)

\* Sign bit of a non-empty value.
SignBit(a) == a[Len(a)] \div 128

\* Signed overflow of a + b and of a - b (what `+=` / `-=` on an i64 detect
\* when overflow checks are compiled in).
AddOverflows(a, b) == SignBit(a) = SignBit(b) /\ SignBit(WrapAdd(a, b)) # SignBit(a)
SubOverflows(a, b) == SignBit(a) # SignBit(b) /\ SignBit(WrapSub(a, b)) # SignBit(a)

\* ApInt::into_negate: two's complement negation at the value's own width.
into_negate(a) == AddCarry([i \in 1..Len(a) |-> 0], BitNot(a), 1)

\* Sign extension / zero extension / truncation to a width of w bytes.
SignExtend(a, w) == [i \in 1..w |-> IF i <= Len(a) THEN a[i] ELSE 255 * SignBit(a)]
ZeroExtend(a, w) == [i \in 1..w |-> IF i <= Len(a) THEN a[i] ELSE 0]
Truncate(a, w) == [i \in 1..w |-> a[i]]

\* Mutant of try_to_i64: narrow values are zero-extended.
try_to_i64_zext(a) ==
    IF Len(a) <= I64Bytes
    THEN <<TRUE, ZeroExtend(a, I64Bytes)>>
    ELSE IF \A i \in (I64Bytes + 1)..Len(a) : a[i] = 0
         THEN <<TRUE, Truncate(a, I64Bytes)>>
         ELSE <<FALSE, <<>>>>

\* ApInt::try_to_i64: Ok(v) is <<TRUE, v>>, Err is <<FALSE, <<>>>>.
\* Values of at most 64 bits are sign-extended from their own width; wider
\* values are representable only if every bit above the lowest 64 is zero.
try_to_i64(a) ==
    IF Len(a) <= I64Bytes
    THEN <<TRUE, SignExtend(a, I64Bytes)>>
    ELSE IF \A i \in (I64Bytes + 1)..Len(a) : a[i] = 0
         THEN <<TRUE, Truncate(a, I64Bytes)>>
         ELSE <<FALSE, <<>>>>

\* ApInt::from_i64: the 64-bit ApInt with the same bits.
from_i64(x) == x

\* Bitvector::bytesize: the width of the value in bytes.
bytesize(a) == Len(a)

\* Bitvector::into_resize_unsigned: zero-extend or truncate to `size` bytes.
into_resize_unsigned(a, size) ==
    IF Len(a) < size THEN ZeroExtend(a, size) ELSE Truncate(a, size)

(***************************************************************************)
(* IR data model (term.rs, def.rs)                                         *)
(***************************************************************************)

\* Tid { id, address }
Tid(id) == [id |-> id, address |-> "UNKNOWN"]

\* Term<T> { tid, term }
Term(tid, term) == [tid |-> tid, term |-> term]

\* Variable and the three expression shapes the pass distinguishes, plus a
\* cast as a representative of the non-binary compound expressions.
Variable(name, size) == [name |-> name, size |-> size]
Var(v) == [k |-> "Var", var |-> v]
Const(bv) == [k |-> "Const", bv |-> bv]
BinOp(op, lhs, rhs) == [k |-> "BinOp", op |-> op, lhs |-> lhs, rhs |-> rhs]
Cast(op, arg) == [k |-> "Cast", op |-> op, arg |-> arg]

\* Def::{Load, Store, Assign}
Load(var, address) == [k |-> "Load", var |-> var, address |-> address]
Store(address, value) == [k |-> "Store", address |-> address, value |-> value]
Assign(var, value) == [k |-> "Assign", var |-> var, value |-> value]

\* Jmp::{Branch, CBranch, Return} (the other variants behave like Return here:
\* they are not Branch).
Branch(target) == [k |-> "Branch", target |-> target]
CBranch(target, condition) == [k |-> "CBranch", target |-> target, condition |-> condition]
Return(e) == [k |-> "Return", target |-> e]

\* Blk { defs, jmps }, Sub { name, blocks }, Program { subs, ... }
Blk(defs, jmps) == [defs |-> defs, jmps |-> jmps]
Sub(name, blocks) == [name |-> name, blocks |-> blocks]
Program(subs, extern_symbols, entry_points) ==
    [subs |-> subs, extern_symbols |-> extern_symbols, entry_points |-> entry_points]

\* LogMessage::new_info(text).location(tid)
LogInfo(text, tid) == [text |-> text, level |-> "Info", location |-> tid]

\* str::contains for the needle "Unsubstitutable Operation on SP" over the
\* message texts this pass produces.
ContainsUnsubstitutable(text) ==
    text \in {"Unsubstitutable Operation on SP",
              "Unsubstitutable Operation on SP. Operants are not register and constant."}

(***************************************************************************)
(* Pure functions of legacy.rs                                             *)
(***************************************************************************)

\* substitute(exp, expected_alignment, journaled_sp, tid).
\* Result: the expression after the call, the log it returns, and whether an
\* unwrap() failed (panic) or the i64 subtraction overflowed (ovf).
substitute(exp, expected_alignment, journaled_sp, tid) ==
    IF exp.k = "BinOp"
    THEN IF \/ exp.lhs.k = "Var" /\ exp.rhs.k = "Const"
            \/ exp.lhs.k = "Const" /\ exp.rhs.k = "Var"
         THEN LET bitmask == IF exp.rhs.k = "Const" THEN exp.rhs.bv ELSE exp.lhs.bv
                  sp == IF exp.lhs.k = "Var" THEN exp.lhs.var ELSE exp.rhs.var
              IN  IF exp.op = "IntAnd"
                  THEN LET neg == try_to_i64(into_negate(bitmask))
                           msk == try_to_i64(bitmask)
                       IN  IF ~neg[1] \/ ~msk[1]
                           THEN [exp |-> exp, log |-> <<>>, panic |-> TRUE, ovf |-> FALSE]
                           ELSE LET anded == BitAnd(journaled_sp, msk[2])
                                    offset == WrapSub(journaled_sp, anded)
                                IN  [exp |-> BinOp("IntSub", Var(sp),
                                           Const(into_resize_unsigned(from_i64(offset),
                                                                      bytesize(bitmask)))),
                                     log |-> IF neg[2] # expected_alignment
                                             THEN <<LogInfo("Unexpected alignment", tid)>>
                                             ELSE <<>>,
                                     panic |-> FALSE,
                                     ovf |-> SubOverflows(journaled_sp, anded)]
                  ELSE [exp |-> exp,
                        log |-> <<LogInfo("Unsubstitutable Operation on SP", tid)>>,
                        panic |-> FALSE, ovf |-> FALSE]
         ELSE [exp |-> exp,
               log |-> <<LogInfo("Unsubstitutable Operation on SP. Operants are not register and constant.", tid)>>,
               panic |-> FALSE, ovf |-> FALSE]
    ELSE [exp |-> exp,
          log |-> <<LogInfo("Unsubstitutable Operation on SP", tid)>>,
          panic |-> FALSE, ovf |-> FALSE]

\* journal_sp_value(journaled_sp, is_plus, (rhs, lhs), sp_register).
\* Result: ok (Ok(()) or Err), the journal after the call, and whether the
\* unwrap() failed (panic) or the i64 `+=` / `-=` overflowed (ovf).
journal_sp_value(journaled_sp, is_plus, rhs, lhs, sp_register) ==
    IF \/ rhs.k = "Var" /\ lhs.k = "Const"
       \/ rhs.k = "Const" /\ lhs.k = "Var"
    THEN LET constant == IF lhs.k = "Const" THEN lhs.bv ELSE rhs.bv
             sp == IF rhs.k = "Var" THEN rhs.var ELSE lhs.var
         IN  IF sp = sp_register
             THEN LET c == try_to_i64(constant)
                  IN  IF ~c[1]
                      THEN [ok |-> TRUE, j |-> journaled_sp, panic |-> TRUE, ovf |-> FALSE]
                      ELSE IF is_plus
                           THEN [ok |-> TRUE, j |-> WrapAdd(journaled_sp, c[2]),
                                 panic |-> FALSE, ovf |-> AddOverflows(journaled_sp, c[2])]
                           ELSE [ok |-> TRUE, j |-> WrapSub(journaled_sp, c[2]),
                                 panic |-> FALSE, ovf |-> SubOverflows(journaled_sp, c[2])]
             ELSE [ok |-> FALSE, j |-> journaled_sp, panic |-> FALSE, ovf |-> FALSE]
    ELSE [ok |-> FALSE, j |-> journaled_sp, panic |-> FALSE, ovf |-> FALSE]

\* Mutant of get_first_branch_tid: the kind of the first jump is not checked.
get_first_jmp_tid(blk) ==
    IF Len(blk.term.jmps) > 0 /\ blk.term.jmps[1].term.k \in {"Branch", "CBranch"}
    THEN <<TRUE, blk.term.jmps[1].term.target>>
    ELSE <<FALSE, <<>>>>

\* get_first_branch_tid(blk): Some(tid) is <<TRUE, tid>>, None is <<FALSE, <<>>>>.
get_first_branch_tid(blk) ==
    IF Len(blk.term.jmps) > 0 /\ blk.term.jmps[1].term.k = "Branch"
    THEN <<TRUE, blk.term.jmps[1].term.target>>
    ELSE <<FALSE, <<>>>>

\* The `for (index, target_blk) in blocks.iter().enumerate()` search of
\* get_first_blk_with_defs: the first index whose block has the target tid
\* (1-based here), 0 if there is none.
FindTarget(blocks, target_tid) ==
    IF \E i \in 1..Len(blocks) : blocks[i].tid = target_tid
    THEN CHOOSE i \in 1..Len(blocks) :
            /\ blocks[i].tid = target_tid
            /\ \A h \in 1..(i - 1) : blocks[h].tid # target_tid
    ELSE 0

\* Mutant of sp_alignment: the arm32 arm is missing.
sp_alignment_no_arm(cpu_architecture) ==
    CASE cpu_architecture = "x86_32" -> IntBytes(16, I64Bytes)
      [] cpu_architecture = "x86_64" -> IntBytes(16, I64Bytes)
      [] OTHER -> IntBytes(0, I64Bytes)

\* The expected alignment chosen from the architecture name, as an i64.
sp_alignment(cpu_architecture) ==
    CASE cpu_architecture = "x86_32" -> IntBytes(16, I64Bytes)
      [] cpu_architecture = "x86_64" -> IntBytes(16, I64Bytes)
      [] cpu_architecture = "arm32" -> IntBytes(4, I64Bytes)
      [] OTHER -> IntBytes(0, I64Bytes)

(***************************************************************************)
(* Inputs: the bounded family of Programs the pass is run on               *)
(***************************************************************************)

\* Longest run of journaled defs placed in front of the def under study.
MaxPre == 2
\* Most blocks of a subroutine in the block-layout family.
MaxBlks == 3
\* Most subroutines of a Program.
MaxSubs == 2

RSP == Variable("RSP", 8)
RAX == Variable("RAX", 8)

\* i64::MIN as a 64-bit constant.
MinI64 == [i \in 1..I64Bytes |-> IF i = I64Bytes THEN 128 ELSE 0]

AndMask16 == Assign(RSP, BinOp("IntAnd", Var(RSP), Const(IntBytes(-16, 8))))

\* Defs that keep the walk going: journaled additions and subtractions in
\* both operand orders and several constant widths, and an alignment.
JournalPool ==
    { Assign(RSP, BinOp("IntAdd", Var(RSP), Const(IntBytes(8, 8)))),
      Assign(RSP, BinOp("IntSub", Var(RSP), Const(IntBytes(4, 8)))),
      Assign(RSP, BinOp("IntAdd", Const(IntBytes(-16, 4)), Var(RSP))),
      Assign(RSP, BinOp("IntSub", Const(IntBytes(4, 1)), Var(RSP))),
      AndMask16 }

\* The def under study: every way the body of the def loop can go.
FinalPool ==
    { AndMask16,
      Assign(RSP, BinOp("IntAnd", Const(IntBytes(-16, 4)), Var(RSP))),
      Assign(RSP, BinOp("IntAnd", Var(RSP), Const(IntBytes(-4, 1)))),
      Assign(RSP, BinOp("IntAnd", Var(RSP), Const(IntBytes(-16, 16)))),
      Assign(RSP, BinOp("IntAnd", Var(RSP), Const(IntBytes(0, 16)))),
      Assign(RSP, BinOp("IntAnd", Var(RSP), Const(IntBytes(240, 16)))),
      Assign(RSP, BinOp("IntAnd", Var(RAX), Const(IntBytes(-16, 8)))),
      Assign(RSP, BinOp("IntOr", Var(RSP), Const(IntBytes(1, 8)))),
      Assign(RSP, BinOp("IntAnd", Var(RSP), Var(RAX))),
      Assign(RSP, BinOp("IntAdd", Var(RSP), Var(RAX))),
      Assign(RSP, BinOp("IntSub", Var(RAX), Const(IntBytes(8, 8)))),
      Assign(RSP, Var(RAX)),
      Assign(RSP, Cast("IntZExt", Var(RAX))),
      Assign(RSP, BinOp("IntSub", Var(RSP), Const(MinI64))),
      Assign(RSP, BinOp("IntAdd", Var(RSP), Const(IntBytes(-8, 16)))),
      Assign(RAX, BinOp("IntAnd", Var(RSP), Const(IntBytes(-16, 8)))),
      Load(RSP, Var(RAX)),
      Store(Var(RSP), Var(RAX)) }

\* Sequences over S of length at most n.
SeqsUpTo(S, n) == UNION {[1..m -> S] : m \in 0..n}

BlkTid(s, b) == Tid(<<"blk", s, b>>)

\* Jump lists by shape: none, one Branch to block t of the same subroutine
\* (t = 0: a tid no block has), or a CBranch followed by the fallback Branch.
MkJmps(s, b, shape) ==
    CASE shape[1] = "none" -> <<>>
      [] shape[1] = "branch" ->
            <<Term(Tid(<<"jmp", s, b, 1>>), Branch(BlkTid(s, shape[2])))>>
      [] shape[1] = "cbranch" ->
            <<Term(Tid(<<"jmp", s, b, 1>>), CBranch(BlkTid(s, shape[2]), Var(RAX))),
              Term(Tid(<<"jmp", s, b, 2>>), Branch(BlkTid(s, shape[2])))>>
      [] shape[1] = "return" ->
            <<Term(Tid(<<"jmp", s, b, 1>>), Return(Var(RAX)))>>

MkBlk(s, b, defs, shape) ==
    Term(BlkTid(s, b),
         Blk([d \in 1..Len(defs) |-> Term(Tid(<<"def", s, b, d>>), defs[d])],
             MkJmps(s, b, shape)))

\* The s-th subroutine of a Program from its blocks' (defs, jump shape) pairs.
MkSub(s, blks) ==
    Term(Tid(<<"sub", s>>),
         Sub("sub",
             [b \in 1..Len(blks) |-> MkBlk(s, b, blks[b][1], blks[b][2])]))

MkProgram(subs) ==
    Program([s \in 1..Len(subs) |-> MkSub(s, subs[s])],
            <<>>, <<Tid(<<"sub", 1>>)>>)

\* Family A: one subroutine whose first block holds at most n journaled
\* defs, the def under study (or none) and a further alignment; a second
\* block holds an alignment the pass must not reach.
DefSubs(n) ==
    { << <<pre \o mid \o <<AndMask16>>, <<"return">>>>,
         <<<<AndMask16>>, <<"none">>>> >> :
        pre \in SeqsUpTo(JournalPool, n),
        mid \in {<<>>} \cup {<<f>> : f \in FinalPool} }

\* Family B: every layout of n blocks, each either with defs or def-less
\* with any of the jump shapes.
JmpShapes(n) ==
    {<<"none">>, <<"cbranch", n>>} \cup {<<"branch", t>> : t \in 0..n}

LayoutSubs ==
    UNION { [1..n -> {<< <<AndMask16>>, <<"return">> >>}
                     \cup ({<<>>} \X JmpShapes(n))] : n \in 0..MaxBlks }

\* Family C: Programs of several subroutines.
SmallSubs ==
    { << <<defs, <<"return">>>> >> :
        defs \in { <<>>,
                   <<AndMask16, AndMask16>>,
                   <<Assign(RSP, BinOp("IntOr", Var(RSP), Const(IntBytes(1, 8))))>>,
                   <<Assign(RSP, BinOp("IntAnd", Var(RSP), Var(RAX))), AndMask16>>,
                   <<Assign(RSP, Var(RAX)), AndMask16>>,
                   <<Assign(RSP, BinOp("IntAdd", Var(RSP), Const(IntBytes(8, 8)))),
                     AndMask16>> } }
    \cup { << <<<<>>, <<"branch", 2>>>>, <<<<>>, <<"branch", 1>>>> >> }

Archs == {"x86_32", "x86_64", "arm32", "mips32"}

Inputs ==
    {<<MkProgram(<<sub>>), a>> : sub \in DefSubs(1), a \in Archs}
    \cup {<<MkProgram(<<sub>>), "x86_64">> : sub \in DefSubs(MaxPre)}
    \cup {<<MkProgram(<<sub>>), "x86_64">> : sub \in LayoutSubs}
    \cup {<<MkProgram(subs), a>> :
            subs \in UNION {[1..n -> SmallSubs] : n \in {0} \cup 2..MaxSubs},
            a \in {"x86_64", "mips32"}}

(***************************************************************************)
(* substitute_and_on_stackpointer as a state machine                       *)
(***************************************************************************)

VARIABLES
    program,                 \* the Program being mutated in place
    stack_pointer_register,  \* argument
    cpu_architecture,        \* argument
    logs,                    \* the Vec<LogMessage> returned at the end
    pc,                      \* "sub_loop", "search", "defs", "done", "panic"
    f,                       \* position of the 'sub_loop iterator (1-based)
    journaled_sp,            \* the i64 journal of the current subroutine
    blk,                     \* get_first_blk_with_defs: current block (1-based)
    visited,                 \* get_first_blk_with_defs: visited block tids
    index,                   \* the block index found (1-based), 0 before that
    d,                       \* position of the def iterator (1-based)
    input,                   \* the Program as it was handed to the pass
    zext                     \* one call of Term<Def>::check_for_zero_extension

vars == <<program, stack_pointer_register, cpu_architecture, logs, pc, f,
          journaled_sp, blk, visited, index, d, input, zext>>

Zero64 == IntBytes(0, I64Bytes)

Init ==
    \E inp \in Inputs :
        /\ program = inp[1]
        /\ input = inp[1]
        /\ cpu_architecture = inp[2]
        /\ stack_pointer_register = RSP
        /\ logs = <<>>
        /\ pc = "sub_loop"
        /\ f = 1
        /\ journaled_sp = Zero64
        /\ blk = 0
        /\ visited = {}
        /\ index = 0
        /\ d = 0
        /\ zext = <<>>

args == <<stack_pointer_register, cpu_architecture, input>>

Blocks == program.subs[f].term.blocks
CurBlk == Blocks[blk]
CurDef == Blocks[index].term.defs[d]

\* `continue 'sub_loop`, and falling out of the body of 'sub_loop.
NextSubroutine ==
    /\ pc' = "sub_loop"
    /\ f' = f + 1
    /\ blk' = 0
    /\ visited' = {}
    /\ index' = 0
    /\ d' = 0

\* get_first_blk_with_defs returned Some(i): enter the def loop of block i.
EnterDefs(i) ==
    /\ pc' = "defs"
    /\ index' = i
    /\ d' = 1
    /\ blk' = 0
    /\ visited' = {}

\* 'sub_loop is exhausted: return logs.
PassReturn ==
    /\ pc = "sub_loop"
    /\ f > Len(program.subs)
    /\ pc' = "done"
    /\ UNCHANGED <<program, logs, f, journaled_sp, blk, visited, index, d, args, zext>>

\* Next subroutine, with no blocks: get_first_blk_with_defs returns None.
SubNoBlocks ==
    /\ pc = "sub_loop"
    /\ f <= Len(program.subs)
    /\ Len(Blocks) = 0
    /\ journaled_sp' = Zero64
    /\ NextSubroutine
    /\ UNCHANGED <<program, logs, args, zext>>

\* Next subroutine: journaled_sp = 0, get_first_blk_with_defs starts at the
\* first block with an empty visited set.
SubStart ==
    /\ pc = "sub_loop"
    /\ f <= Len(program.subs)
    /\ Len(Blocks) > 0
    /\ journaled_sp' = Zero64
    /\ pc' = "search"
    /\ blk' = 1
    /\ visited' = {}
    /\ UNCHANGED <<program, logs, f, index, d, args, zext>>

\* The while condition fails: "first block was not empty", Some(0).
SearchFirstNotEmpty ==
    /\ pc = "search"
    /\ Len(CurBlk.term.defs) > 0
    /\ EnterDefs(1)
    /\ UNCHANGED <<program, logs, f, journaled_sp, args, zext>>

\* "did not find branch in block"
SearchNoBranch ==
    /\ pc = "search"
    /\ Len(CurBlk.term.defs) = 0
    /\ ~get_first_branch_tid(CurBlk)[1]
    /\ NextSubroutine
    /\ UNCHANGED <<program, logs, journaled_sp, args, zext>>

\* "busy loop"
SearchRevisit ==
    /\ pc = "search"
    /\ Len(CurBlk.term.defs) = 0
    /\ get_first_branch_tid(CurBlk)[1]
    /\ CurBlk.tid \in visited
    /\ NextSubroutine
    /\ UNCHANGED <<program, logs, journaled_sp, args, zext>>

\* "did not find target"
SearchNoTarget ==
    /\ pc = "search"
    /\ Len(CurBlk.term.defs) = 0
    /\ get_first_branch_tid(CurBlk)[1]
    /\ CurBlk.tid \notin visited
    /\ FindTarget(Blocks, get_first_branch_tid(CurBlk)[2]) = 0
    /\ NextSubroutine
    /\ UNCHANGED <<program, logs, journaled_sp, args, zext>>

\* The target has defs: return Some(index).
SearchFound ==
    /\ pc = "search"
    /\ Len(CurBlk.term.defs) = 0
    /\ get_first_branch_tid(CurBlk)[1]
    /\ CurBlk.tid \notin visited
    /\ LET i == FindTarget(Blocks, get_first_branch_tid(CurBlk)[2])
       IN  /\ i # 0
           /\ Len(Blocks[i].term.defs) > 0
           /\ EnterDefs(i)
    /\ UNCHANGED <<program, logs, f, journaled_sp, args, zext>>

\* As SearchContinue, but without `visited.insert(&blk.tid)`.
SearchContinueNoInsert ==
    /\ pc = "search"
    /\ Len(CurBlk.term.defs) = 0
    /\ get_first_branch_tid(CurBlk)[1]
    /\ CurBlk.tid \notin visited
    /\ LET i == FindTarget(Blocks, get_first_branch_tid(CurBlk)[2])
       IN  /\ i # 0
           /\ Len(Blocks[i].term.defs) = 0
           /\ blk' = i
    /\ UNCHANGED <<program, logs, pc, f, journaled_sp, visited, index, d, args, zext>>

\* The target has no defs: "continue with new block".
SearchContinue ==
    /\ pc = "search"
    /\ Len(CurBlk.term.defs) = 0
    /\ get_first_branch_tid(CurBlk)[1]
    /\ CurBlk.tid \notin visited
    /\ LET i == FindTarget(Blocks, get_first_branch_tid(CurBlk)[2])
       IN  /\ i # 0
           /\ Len(Blocks[i].term.defs) = 0
           /\ blk' = i
    /\ visited' = visited \cup {CurBlk.tid}
    /\ UNCHANGED <<program, logs, pc, f, journaled_sp, index, d, args, zext>>

\* The def iterator is exhausted: next subroutine.
DefsExhausted ==
    /\ pc = "defs"
    /\ d > Len(Blocks[index].term.defs)
    /\ NextSubroutine
    /\ UNCHANGED <<program, logs, journaled_sp, args, zext>>

\* Mutant of IsSpAssign: the assigned variable is not compared.
IsAnyAssign(def) == def.term.k = "Assign"

\* The guards `if let Def::Assign { var, value }` and
\* `if var == stack_pointer_register`.
IsSpAssign(def) ==
    def.term.k = "Assign" /\ def.term.var = stack_pointer_register

AtSpBinOp(ops) ==
    /\ pc = "defs"
    /\ d <= Len(Blocks[index].term.defs)
    /\ IsSpAssign(CurDef)
    /\ CurDef.term.value.k = "BinOp"
    /\ CurDef.term.value.op \in ops

OtherOps == {"IntAnd", "IntOr", "IntXOr", "IntMult"}

\* A Load, a Store or an Assign to another variable: nothing happens.
SkipDef ==
    /\ pc = "defs"
    /\ d <= Len(Blocks[index].term.defs)
    /\ ~IsSpAssign(CurDef)
    /\ d' = d + 1
    /\ UNCHANGED <<program, logs, pc, f, journaled_sp, blk, visited, index, args, zext>>

\* The result of the journal_sp_value call of the current def.
JournalCall ==
    journal_sp_value(journaled_sp, CurDef.term.value.op = "IntAdd",
                     CurDef.term.value.lhs, CurDef.term.value.rhs,
                     stack_pointer_register)

\* The common part of the BinOpType::IntAdd and BinOpType::IntSub arms.
Journal(r) ==
    /\ ~r.panic
    /\ IF r.ok
       THEN /\ journaled_sp' = r.j
            /\ d' = d + 1
            /\ UNCHANGED <<pc, f, blk, visited, index>>
       ELSE /\ NextSubroutine
            /\ UNCHANGED journaled_sp
    /\ UNCHANGED <<program, logs, args, zext>>

\* BinOpType::IntAdd
JournalAdd == AtSpBinOp({"IntAdd"}) /\ Journal(JournalCall)

\* BinOpType::IntSub
JournalSub == AtSpBinOp({"IntSub"}) /\ Journal(JournalCall)

\* The result of the substitute call of the current def.
SubstituteCall ==
    substitute(CurDef.term.value, sp_alignment(cpu_architecture),
               journaled_sp, CurDef.tid)

\* As Substitute, but the subtraction written into the def is journaled
\* like a `sp := sp - offset` of the input.
SubstituteJournalsOffset ==
    /\ AtSpBinOp(OtherOps)
    /\ LET r == SubstituteCall
           all == logs \o r.log
       IN  /\ ~r.panic
           /\ program' = [program EXCEPT
                  !.subs[f].term.blocks[index].term.defs[d].term.value = r.exp]
           /\ logs' = all
           /\ journaled_sp' =
                  IF r.exp.op = "IntSub"
                  THEN journal_sp_value(journaled_sp, FALSE, r.exp.lhs, r.exp.rhs,
                                        r.exp.lhs.var).j
                  ELSE journaled_sp
           /\ IF \E i \in 1..Len(all) : ContainsUnsubstitutable(all[i].text)
              THEN NextSubroutine
              ELSE /\ d' = d + 1
                   /\ UNCHANGED <<pc, f, blk, visited, index>>
    /\ UNCHANGED <<args, zext>>

\* Any other binary operation: substitute, append its log, and give the
\* subroutine up if any message logged so far says "Unsubstitutable".
Substitute ==
    /\ AtSpBinOp(OtherOps)
    /\ LET r == SubstituteCall
           all == logs \o r.log
       IN  /\ ~r.panic
           /\ program' = [program EXCEPT
                  !.subs[f].term.blocks[index].term.defs[d].term.value = r.exp]
           /\ logs' = all
           /\ IF \E i \in 1..Len(all) : ContainsUnsubstitutable(all[i].text)
              THEN NextSubroutine
              ELSE /\ d' = d + 1
                   /\ UNCHANGED <<pc, f, blk, visited, index>>
    /\ UNCHANGED <<journaled_sp, args, zext>>

\* Mutant of UnexpectedAssignment: the walk goes on after the diagnostic.
UnexpectedAssignmentGoesOn ==
    /\ pc = "defs"
    /\ d <= Len(Blocks[index].term.defs)
    /\ IsSpAssign(CurDef)
    /\ CurDef.term.value.k # "BinOp"
    /\ logs' = Append(logs, LogInfo("Unexpected assignment on SP", CurDef.tid))
    /\ d' = d + 1
    /\ UNCHANGED <<program, journaled_sp, pc, f, blk, visited, index, args, zext>>

\* The value assigned to SP is no binary operation.
UnexpectedAssignment ==
    /\ pc = "defs"
    /\ d <= Len(Blocks[index].term.defs)
    /\ IsSpAssign(CurDef)
    /\ CurDef.term.value.k # "BinOp"
    /\ logs' = Append(logs, LogInfo("Unexpected assignment on SP", CurDef.tid))
    /\ NextSubroutine
    /\ UNCHANGED <<program, journaled_sp, args, zext>>

\* An unwrap() of a failed try_to_i64, or an i64 overflow in a build with
\* overflow checks: the thread panics and the pass never returns.
Panic ==
    /\ \/ /\ AtSpBinOp({"IntAdd", "IntSub"})
          /\ JournalCall.panic \/ JournalCall.ovf
       \/ /\ AtSpBinOp(OtherOps)
          /\ SubstituteCall.panic \/ SubstituteCall.ovf
    /\ pc' = "panic"
    /\ UNCHANGED <<program, logs, f, journaled_sp, blk, visited, index, d, args, zext>>

Next ==
    \/ PassReturn
    \/ SubNoBlocks
    \/ SubStart
    \/ SearchFirstNotEmpty
    \/ SearchNoBranch
    \/ SearchRevisit
    \/ SearchNoTarget
    \/ SearchFound
    \/ SearchContinue
    \/ DefsExhausted
    \/ SkipDef
    \/ JournalAdd
    \/ JournalSub
    \/ Substitute
    \/ UnexpectedAssignment
    \/ Panic

Spec == Init /\ [][Next]_vars

(***************************************************************************)
(* Vocabulary of the properties: integers read off the input Program       *)
(***************************************************************************)

\* A value is small if it is the sign extension of its two lowest bytes.
Small(bv) ==
    \/ Len(bv) = 1
    \/ \A i \in 3..Len(bv) : bv[i] = 255 * (bv[2] \div 128)

\* The signed integer a small value stands for.
SVal(bv) ==
    IF Len(bv) = 1 THEN bv[1] - 256 * (bv[1] \div 128)
    ELSE bv[1] + 256 * bv[2] - 65536 * (bv[2] \div 128)

\* Bitwise AND of two integers (two's complement, any size).
RECURSIVE AndInt(_, _)
AndInt(a, b) ==
    IF a = 0 \/ b = 0 THEN 0
    ELSE IF a = -1 THEN b
    ELSE IF b = -1 THEN a
    ELSE (a % 2) * (b % 2) + 2 * AndInt(a \div 2, b \div 2)

InDefs(s, b) == input.subs[s].term.blocks[b].term.defs
OutDefs(s, b) == program.subs[s].term.blocks[b].term.defs

\* `var := x op y` with var the stack pointer register and {x, y} a
\* variable and a constant, in either order.
SpVarConst(def, ops) ==
    /\ def.term.k = "Assign"
    /\ def.term.var = stack_pointer_register
    /\ def.term.value.k = "BinOp"
    /\ def.term.value.op \in ops
    /\ \/ def.term.value.lhs.k = "Var" /\ def.term.value.rhs.k = "Const"
       \/ def.term.value.lhs.k = "Const" /\ def.term.value.rhs.k = "Var"

VarOf(def) ==
    IF def.term.value.lhs.k = "Var" THEN def.term.value.lhs.var
    ELSE def.term.value.rhs.var

ConstOf(def) ==
    IF def.term.value.lhs.k = "Const" THEN def.term.value.lhs.bv
    ELSE def.term.value.rhs.bv

\* `sp := sp + c`, `sp := c + sp`, `sp := sp - c` or `sp := c - sp`.
Journaled(def) ==
    SpVarConst(def, {"IntAdd", "IntSub"}) /\ VarOf(def) = stack_pointer_register

\* All journaled constants among the first n defs are small.
SmallPrefix(defs, n) ==
    \A k \in 1..n : Journaled(defs[k]) => Small(ConstOf(defs[k]))

\* Sum of the added minus sum of the subtracted constants of the first n
\* defs, as an integer.
RECURSIVE SumInt(_, _)
SumInt(defs, n) ==
    IF n = 0 THEN 0
    ELSE SumInt(defs, n - 1)
         + (IF ~Journaled(defs[n]) THEN 0
            ELSE IF defs[n].term.value.op = "IntAdd" THEN SVal(ConstOf(defs[n]))
            ELSE 0 - SVal(ConstOf(defs[n])))

\* The same sum in 64-bit two's complement, for constants of any size that
\* fit an i64.
RECURSIVE SumI64(_, _)
SumI64(defs, n) ==
    IF n = 0 THEN IntBytes(0, I64Bytes)
    ELSE IF ~Journaled(defs[n]) THEN SumI64(defs, n - 1)
    ELSE IF defs[n].term.value.op = "IntAdd"
         THEN WrapAdd(SumI64(defs, n - 1), SignExtend(ConstOf(defs[n]), I64Bytes))
         ELSE WrapSub(SumI64(defs, n - 1), SignExtend(ConstOf(defs[n]), I64Bytes))

\* The journal expected after the first n defs of a block.
ExpectedJournal(defs, n) ==
    IF SmallPrefix(defs, n) THEN IntBytes(SumInt(defs, n), I64Bytes)
    ELSE SumI64(defs, n)

(***************************************************************************)
(* C3                                                                      *)
(***************************************************************************)

\* C3: the journal is 0 when the walk of a subroutine starts, and at every
\* def of the representative block it is the sum of the constants of the
\* preceding `sp := sp + c` / `sp := c + sp` defs minus the sum of the
\* constants of the preceding `sp := sp - c` / `sp := c - sp` defs of the
\* input block, constants read as signed values, in i64 arithmetic.
C3_JournalIsSignedSum ==
    /\ pc = "search" => journaled_sp = IntBytes(0, I64Bytes)
    /\ pc = "defs" => journaled_sp = ExpectedJournal(InDefs(f, index), d - 1)

\* The example of the specification: after `sp := sp + 8; sp := sp - 4` the
\* journal is 4.
C3_Witness ==
    /\ pc = "defs"
    /\ d = 3
    /\ InDefs(f, index)[1].term
          = Assign(RSP, BinOp("IntAdd", Var(RSP), Const(IntBytes(8, 8))))
    /\ InDefs(f, index)[2].term
          = Assign(RSP, BinOp("IntSub", Var(RSP), Const(IntBytes(4, 8))))
    /\ journaled_sp = IntBytes(4, I64Bytes)

(***************************************************************************)
(* C2                                                                      *)
(***************************************************************************)

\* The def `sp := x AND y` with {x, y} the stack pointer register and a
\* constant bitmask, in either order.
AndOnSp(def) ==
    SpVarConst(def, {"IntAnd"}) /\ VarOf(def) = stack_pointer_register

\* offset = j - (j AND bitmask) for the journal j expected before def i of
\* the block: as an integer where the operands are small, else as an i64.
OffsetI64(defs, i) ==
    LET m == ConstOf(defs[i])
    IN  IF SmallPrefix(defs, i - 1) /\ Small(m)
        THEN LET j == SumInt(defs, i - 1)
             IN  IntBytes(j - AndInt(j, SVal(m)), I64Bytes)
        ELSE LET j == SumI64(defs, i - 1)
             IN  WrapSub(j, BitAnd(j, try_to_i64(m)[2]))

\* The same offset at the bitmask's own width, i.e. offset mod 2^width.
OffsetModWidth(defs, i) ==
    LET m == ConstOf(defs[i])
    IN  IF SmallPrefix(defs, i - 1) /\ Small(m)
        THEN LET j == SumInt(defs, i - 1)
             IN  IntBytes(j - AndInt(j, SVal(m)), Len(m))
        ELSE SignExtend(OffsetI64(defs, i), Len(m))

\* The offset as the code resizes it: offset mod 2^width for widths up to
\* 64 bits, the 64-bit pattern of the offset padded with zeros above.
OffsetResized(defs, i) ==
    LET m == ConstOf(defs[i])
    IN  IF Len(m) <= I64Bytes THEN OffsetModWidth(defs, i)
        ELSE OffsetI64(defs, i) \o [k \in 1..(Len(m) - I64Bytes) |-> 0]

\* Every def the walk has passed that matched `sp AND bitmask` reads
\* `sp - c`, and every def that differs from its input was `v AND bitmask`
\* and reads `v - c`, with c given by Expected.
RewrittenTo(Expected(_, _)) ==
    /\ pc = "defs" =>
          \A i \in 1..(d - 1) :
              AndOnSp(InDefs(f, index)[i]) =>
                  OutDefs(f, index)[i].term.value
                      = BinOp("IntSub", Var(stack_pointer_register),
                              Const(Expected(InDefs(f, index), i)))
    /\ \A s \in 1..Len(input.subs) :
         \A b \in 1..Len(input.subs[s].term.blocks) :
           \A i \in 1..Len(InDefs(s, b)) :
              OutDefs(s, b)[i] # InDefs(s, b)[i] =>
                  /\ SpVarConst(InDefs(s, b)[i], {"IntAnd"})
                  /\ OutDefs(s, b)[i].term.value
                        = BinOp("IntSub", Var(VarOf(InDefs(s, b)[i])),
                                Const(Expected(InDefs(s, b), i)))

\* C2 as stated: the rewritten constant is offset mod 2^width, for every
\* width of the bitmask.
C2_OffsetModWidth == RewrittenTo(OffsetModWidth)

\* C2, amended: a matched `sp AND bitmask` is rewritten to IntSub of the
\* original variable operand and a constant of the bitmask's width holding
\* offset = j - (j AND bitmask), computed in i64 arithmetic and resized
\* unsigned: offset mod 2^width for bitmasks of at most 64 bits, offset mod
\* 2^64 zero-extended for wider bitmasks.
C2_OffsetResizedUnsigned == RewrittenTo(OffsetResized)

\* The example of the specification, j = 4 and bitmask = -16 give `sp - 4`;
\* and a negative offset at a narrow bitmask.
C2_Witness ==
    /\ pc = "defs"
    /\ d = 4
    /\ journaled_sp = IntBytes(4, I64Bytes)
    /\ InDefs(f, index)[3].term = AndMask16
    /\ OutDefs(f, index)[3].term
          = Assign(RSP, BinOp("IntSub", Var(RSP), Const(IntBytes(4, 8))))

(***************************************************************************)
(* C6                                                                      *)
(***************************************************************************)

\* The block a def-less block hands over to: the block its first jump
\* targets if that jump is a Branch to a block of the subroutine, else 0.
BranchSucc(blocks, b) ==
    IF /\ Len(blocks[b].term.defs) = 0
       /\ Len(blocks[b].term.jmps) >= 1
       /\ blocks[b].term.jmps[1].term.k = "Branch"
       /\ \E i \in 1..Len(blocks) : blocks[i].tid = blocks[b].term.jmps[1].term.target
    THEN CHOOSE i \in 1..Len(blocks) : blocks[i].tid = blocks[b].term.jmps[1].term.target
    ELSE 0

\* The blocks on the chain that starts at the first block.
RECURSIVE ChainFrom(_, _, _)
ChainFrom(blocks, R, n) ==
    IF n = 0 THEN R
    ELSE ChainFrom(blocks,
                   R \cup ({BranchSucc(blocks, b) : b \in R} \ {0}),
                   n - 1)

\* The representative block of a subroutine: the block with defs on the
\* chain of its first block, 0 if there is none.
ExpectedEntry(sub) ==
    IF Len(sub.blocks) = 0 THEN 0
    ELSE LET chain == ChainFrom(sub.blocks, {1}, Len(sub.blocks))
         IN  IF \E i \in chain : Len(sub.blocks[i].term.defs) > 0
             THEN CHOOSE i \in chain : Len(sub.blocks[i].term.defs) > 0
             ELSE 0

\* The tids of the defs of a subroutine.
DefTids(sub) ==
    UNION { {sub.blocks[b].term.defs[i].tid : i \in 1..Len(sub.blocks[b].term.defs)} :
            b \in 1..Len(sub.blocks) }

\* C6: the block whose defs are walked is block 0 if it has defs, else the
\* first block with defs on the Branch chain of def-less blocks; the search
\* gives up (none) exactly if there is no such block (missing target,
\* revisited block, first jump no Branch, no jump, no blocks), and then the
\* subroutine is left as it was and no diagnostic points into it.
C6_EntryBlockResolution ==
    /\ [](pc = "defs" => index = ExpectedEntry(input.subs[f].term))
    /\ [][pc = "search" /\ pc' = "sub_loop"
            => ExpectedEntry(input.subs[f].term) = 0]_vars
    /\ [][pc = "sub_loop" /\ pc' = "sub_loop"
            => ExpectedEntry(input.subs[f].term) = 0]_vars
    /\ [](\A s \in 1..Len(input.subs) :
            s < f /\ ExpectedEntry(input.subs[s].term) = 0 =>
                /\ program.subs[s] = input.subs[s]
                /\ \A i \in 1..Len(logs) :
                      logs[i].location \notin DefTids(input.subs[s].term))

\* A chain of two def-less blocks leads to the third block.
C6_Witness ==
    /\ pc = "defs"
    /\ index = 3
    /\ BranchSucc(input.subs[f].term.blocks, 1) = 2
    /\ BranchSucc(input.subs[f].term.blocks, 2) = 3

(***************************************************************************)
(* C7                                                                      *)
(***************************************************************************)

\* C7: the pass never panics, whatever the width or value of the constants
\* combined with SP and whatever the journaled offset.
C7_NeverPanics == pc # "panic"

(***************************************************************************)
(* C9                                                                      *)
(***************************************************************************)

\* The walk is at a def that assigns to SP a value that is no BinOp.
AtNonBinarySpAssign ==
    /\ pc = "defs"
    /\ d <= Len(Blocks[index].term.defs)
    /\ CurDef.term.k = "Assign"
    /\ CurDef.term.var = stack_pointer_register
    /\ CurDef.term.value.k # "BinOp"

\* C9: at a def of the representative block that assigns a non-binary value
\* to SP the pass logs one 'Unexpected assignment on SP' info diagnostic at
\* the def's tid, leaves the Program as it is and goes to the next
\* subroutine; no def ever gets two such diagnostics.
C9_UnexpectedAssignment ==
    /\ [][AtNonBinarySpAssign =>
            /\ logs' = Append(logs, [text |-> "Unexpected assignment on SP",
                                     level |-> "Info",
                                     location |-> CurDef.tid])
            /\ program' = program
            /\ pc' = "sub_loop"
            /\ f' = f + 1]_vars
    /\ [](\A i, h \in 1..Len(logs) :
            /\ logs[i].text = "Unexpected assignment on SP"
            /\ logs[h].text = "Unexpected assignment on SP"
            /\ logs[i].location = logs[h].location
            => i = h)

\* The diagnostic has been logged for a cast assigned to SP, with the def
\* still in place.
C9_Witness ==
    /\ pc = "sub_loop"
    /\ f = 2
    /\ Len(logs) = 1
    /\ logs[1].text = "Unexpected assignment on SP"
    /\ \E i \in 1..Len(InDefs(1, 1)) :
          /\ logs[1].location = InDefs(1, 1)[i].tid
          /\ InDefs(1, 1)[i].term = Assign(RSP, Cast("IntZExt", Var(RAX)))
          /\ OutDefs(1, 1)[i] = InDefs(1, 1)[i]

(***************************************************************************)
(* C10                                                                     *)
(***************************************************************************)

\* A Program with the value of every assignment to SP in a representative
\* block (as resolved on the input) blanked out.
Erase(prog) ==
    [prog EXCEPT !.subs =
        [s \in 1..Len(prog.subs) |->
            [prog.subs[s] EXCEPT !.term.blocks =
                [b \in 1..Len(prog.subs[s].term.blocks) |->
                    IF s <= Len(input.subs) /\ b = ExpectedEntry(input.subs[s].term)
                    THEN [prog.subs[s].term.blocks[b] EXCEPT !.term.defs =
                            [i \in 1..Len(prog.subs[s].term.blocks[b].term.defs) |->
                                LET def == prog.subs[s].term.blocks[b].term.defs[i]
                                IN  IF /\ def.term.k = "Assign"
                                       /\ def.term.var = stack_pointer_register
                                    THEN [def EXCEPT !.term.value = "erased"]
                                    ELSE def]]
                    ELSE prog.subs[s].term.blocks[b]]]]]

\* The jump-shape invariant of a Program's blocks.
JumpShape(prog) ==
    \A s \in 1..Len(prog.subs) :
      \A b \in 1..Len(prog.subs[s].term.blocks) :
        LET jmps == prog.subs[s].term.blocks[b].term.jmps
        IN  /\ Len(jmps) \in {0, 1, 2}
            /\ Len(jmps) = 2 => jmps[1].term.k = "CBranch"

\* C10: apart from the value expressions of the assignments to SP in the
\* representative blocks, the Program is at all times the input Program,
\* and it keeps the jump-shape invariant.
C10_Frame ==
    /\ Erase(program) = Erase(input)
    /\ JumpShape(input) => JumpShape(program)

\* The pass has finished on a Program it rewrote, whose first block also
\* holds a non-SP assignment and which has a block it must not touch.
C10_Witness ==
    /\ pc = "done"
    /\ program # input
    /\ Len(input.subs) = 1
    /\ Len(input.subs[1].term.blocks) = 2
    /\ \E i \in 1..Len(InDefs(1, 1)) : InDefs(1, 1)[i].term.k = "Assign"
                                       /\ InDefs(1, 1)[i].term.var = RAX
    /\ Len(InDefs(1, 2)) > 0

(***************************************************************************)
(* C4                                                                      *)
(***************************************************************************)

\* A binary operation that reaches the substitution step and is not IntAnd
\* of the stack pointer register and a constant.
Unsubstitutable(def) ==
    /\ def.term.k = "Assign"
    /\ def.term.var = stack_pointer_register
    /\ def.term.value.k = "BinOp"
    /\ def.term.value.op \notin {"IntAdd", "IntSub"}
    /\ ~AndOnSp(def)

\* C4: only `sp AND bitmask` (either order) is rewritten; any other binary
\* operation that reaches the substitution step is left as it is, gets an
\* 'Unsubstitutable Operation on SP' diagnostic at its tid and ends the
\* walk of the subroutine.
C4_OnlyAndOnSpRewritten ==
    /\ [](\A s \in 1..Len(input.subs) :
           \A b \in 1..Len(input.subs[s].term.blocks) :
             \A i \in 1..Len(InDefs(s, b)) :
                OutDefs(s, b)[i] # InDefs(s, b)[i] => AndOnSp(InDefs(s, b)[i]))
    /\ [][pc = "defs" /\ d <= Len(Blocks[index].term.defs) /\ Unsubstitutable(CurDef) =>
            /\ program' = program
            /\ Len(logs') = Len(logs) + 1
            /\ ContainsUnsubstitutable(logs'[Len(logs')].text)
            /\ logs'[Len(logs')].location = CurDef.tid
            /\ pc' = "sub_loop"
            /\ f' = f + 1]_vars

(***************************************************************************)
(* The pass as a function of its arguments                                 *)
(*                                                                         *)
(* The same code as the state machine above, folded over the subroutines   *)
(* and defs, so that runs on different arguments can be compared.  An      *)
(* overflowing `+=` / `-=` wraps here, as in a build without overflow      *)
(* checks; a failed unwrap() ends the run with panic = TRUE.               *)
(***************************************************************************)

\* get_first_blk_with_defs from the while loop at block b on: the index
\* found (1-based), 0 for None.
RECURSIVE SearchFrom(_, _, _)
SearchFrom(blocks, b, seen) ==
    IF Len(blocks[b].term.defs) > 0 THEN 1
    ELSE LET t == get_first_branch_tid(blocks[b])
         IN  IF ~t[1] THEN 0
             ELSE IF blocks[b].tid \in seen THEN 0
             ELSE LET i == FindTarget(blocks, t[2])
                  IN  IF i = 0 THEN 0
                      ELSE IF Len(blocks[i].term.defs) > 0 THEN i
                      ELSE SearchFrom(blocks, i, seen \cup {blocks[b].tid})

get_first_blk_with_defs(sub) ==
    IF Len(sub.blocks) = 0 THEN 0 ELSE SearchFrom(sub.blocks, 1, {})

\* The def loop from def i on, with journal j and the log vector so far.
RECURSIVE WalkDefs(_, _, _, _, _, _)
WalkDefs(defs, i, j, lg, sp_register, alignment) ==
    IF i > Len(defs) THEN [defs |-> defs, logs |-> lg, panic |-> FALSE]
    ELSE LET def == defs[i]
         IN  IF ~(def.term.k = "Assign" /\ def.term.var = sp_register)
             THEN WalkDefs(defs, i + 1, j, lg, sp_register, alignment)
             ELSE IF def.term.value.k # "BinOp"
             THEN [defs |-> defs,
                   logs |-> Append(lg, LogInfo("Unexpected assignment on SP", def.tid)),
                   panic |-> FALSE]
             ELSE IF def.term.value.op \in {"IntAdd", "IntSub"}
             THEN LET r == journal_sp_value(j, def.term.value.op = "IntAdd",
                                            def.term.value.lhs, def.term.value.rhs,
                                            sp_register)
                  IN  IF r.panic THEN [defs |-> defs, logs |-> lg, panic |-> TRUE]
                      ELSE IF ~r.ok THEN [defs |-> defs, logs |-> lg, panic |-> FALSE]
                      ELSE WalkDefs(defs, i + 1, r.j, lg, sp_register, alignment)
             ELSE LET r == substitute(def.term.value, alignment, j, def.tid)
                      all == lg \o r.log
                      out == [defs EXCEPT ![i].term.value = r.exp]
                  IN  IF r.panic THEN [defs |-> defs, logs |-> lg, panic |-> TRUE]
                      ELSE IF \E h \in 1..Len(all) : ContainsUnsubstitutable(all[h].text)
                      THEN [defs |-> out, logs |-> all, panic |-> FALSE]
                      ELSE WalkDefs(out, i + 1, j, all, sp_register, alignment)

\* The body of 'sub_loop for one subroutine.
RunSub(sub, lg, sp_register, alignment) ==
    LET i == get_first_blk_with_defs(sub.term)
    IN  IF i = 0 THEN [sub |-> sub, logs |-> lg, panic |-> FALSE]
        ELSE LET r == WalkDefs(sub.term.blocks[i].term.defs, 1,
                               IntBytes(0, I64Bytes), lg, sp_register, alignment)
             IN  [sub |-> [sub EXCEPT !.term.blocks[i].term.defs = r.defs],
                  logs |-> r.logs, panic |-> r.panic]

\* 'sub_loop from subroutine s on.
RECURSIVE RunSubs(_, _, _, _, _)
RunSubs(prog, s, lg, sp_register, alignment) ==
    IF s > Len(prog.subs) THEN [program |-> prog, logs |-> lg, panic |-> FALSE]
    ELSE LET r == RunSub(prog.subs[s], lg, sp_register, alignment)
             out == [prog EXCEPT !.subs[s] = r.sub]
         IN  IF r.panic THEN [program |-> out, logs |-> r.logs, panic |-> TRUE]
             ELSE RunSubs(out, s + 1, r.logs, sp_register, alignment)

\* substitute_and_on_stackpointer(program, stack_pointer_register, cpu_architecture)
substitute_and_on_stackpointer(prog, sp_register, architecture) ==
    RunSubs(prog, 1, <<>>, sp_register, sp_alignment(architecture))

(***************************************************************************)
(* C8                                                                      *)
(***************************************************************************)

\* The expected alignment of an architecture name.
ExpectedAlignment(a) ==
    CASE a = "x86_32" -> 16
      [] a = "x86_64" -> 16
      [] a = "arm32" -> 4
      [] OTHER -> 0

\* The two's complement negation of a small bitmask at its own width, read
\* as a signed integer.
NegatedMask(m) == SVal(IntBytes(0 - SVal(m), Len(m)))

\* C8: the Program the pass ends with is the same for every architecture
\* name; at a matched `v AND bitmask` the 'Unexpected alignment' info
\* diagnostic is logged at the def's tid exactly if the negated bitmask
\* differs from the expected alignment (x86_32, x86_64: 16; arm32: 4; any
\* other name: 0), and the def is rewritten to IntSub either way.
C8_AlignmentCheckOnlyInforms ==
    /\ [](pc = "done" =>
            \A a \in Archs \cup {""} :
                LET r == substitute_and_on_stackpointer(input, stack_pointer_register, a)
                IN  /\ ~r.panic
                    /\ r.program = program
                    /\ a = cpu_architecture => r.logs = logs)
    /\ [][/\ pc = "defs"
          /\ d <= Len(Blocks[index].term.defs)
          /\ SpVarConst(CurDef, {"IntAnd"})
          /\ pc' # "panic"
          => /\ logs' = IF NegatedMask(ConstOf(CurDef)) # ExpectedAlignment(cpu_architecture)
                        THEN Append(logs, [text |-> "Unexpected alignment",
                                           level |-> "Info",
                                           location |-> CurDef.tid])
                        ELSE logs
             /\ program'.subs[f].term.blocks[index].term.defs[d].term.value.op = "IntSub"]_vars

\* On arm32 the pass has rewritten `sp AND -4` without a diagnostic and
\* `sp AND -16` with one.
C8_Witness ==
    /\ pc = "done"
    /\ cpu_architecture = "arm32"
    /\ Len(InDefs(1, 1)) = 2
    /\ InDefs(1, 1)[1].term = Assign(RSP, BinOp("IntAnd", Var(RSP), Const(IntBytes(-4, 1))))
    /\ OutDefs(1, 1)[1].term = Assign(RSP, BinOp("IntSub", Var(RSP), Const(IntBytes(0, 1))))
    /\ OutDefs(1, 1)[2].term = Assign(RSP, BinOp("IntSub", Var(RSP), Const(IntBytes(0, 8))))
    /\ Len(logs) = 1
    /\ logs[1] = LogInfo("Unexpected alignment", InDefs(1, 1)[2].tid)

(***************************************************************************)
(* C1                                                                      *)
(***************************************************************************)

\* The messages of a log that point into subroutine s of the input.
LogsOf(lg, s) ==
    LET Here(m) == m.location \in DefTids(input.subs[s].term)
    IN  SelectSeq(lg, Here)

\* C1: when the pass has returned, every subroutine and the diagnostics of
\* its defs are what the pass gives on a Program that holds that subroutine
\* alone.
C1_SubroutinesIndependent ==
    pc = "done" =>
        \A s \in 1..Len(input.subs) :
            LET alone == substitute_and_on_stackpointer(
                             Program(<<input.subs[s]>>, input.extern_symbols,
                                     input.entry_points),
                             stack_pointer_register, cpu_architecture)
            IN  /\ program.subs[s] = alone.program.subs[1]
                /\ LogsOf(logs, s) = alone.logs

(***************************************************************************)
(* C5                                                                      *)
(***************************************************************************)

\* The abort conditions: IntAdd/IntSub on SP with operands other than the
\* stack pointer register and a constant, an unsubstitutable operation, a
\* non-binary assignment to SP.
AbortCondition(def) ==
    /\ def.term.k = "Assign"
    /\ def.term.var = stack_pointer_register
    /\ \/ def.term.value.k # "BinOp"
       \/ Unsubstitutable(def)
       \/ def.term.value.op \in {"IntAdd", "IntSub"} /\ ~Journaled(def)

\* The first def of a block with an abort condition; one past the block if
\* it has none.
FirstAbort(defs) ==
    IF \E i \in 1..Len(defs) : AbortCondition(defs[i])
    THEN CHOOSE i \in 1..Len(defs) :
            AbortCondition(defs[i]) /\ \A h \in 1..(i - 1) : ~AbortCondition(defs[h])
    ELSE Len(defs) + 1

\* C5: the walk never goes past the first abort condition of the
\* representative block, and when the walk of a subroutine is over, the
\* `sp AND bitmask` defs in front of the first abort condition are
\* rewritten and the def with the abort condition and all later defs are
\* as in the input.
C5_StopsAtFirstAbort ==
    /\ pc = "defs" => d <= FirstAbort(InDefs(f, index))
    /\ \A s \in 1..Len(input.subs) :
          s < f /\ ExpectedEntry(input.subs[s].term) # 0 =>
              LET b == ExpectedEntry(input.subs[s].term)
              IN  \A i \in 1..Len(InDefs(s, b)) :
                      IF i < FirstAbort(InDefs(s, b)) /\ AndOnSp(InDefs(s, b)[i])
                      THEN /\ OutDefs(s, b)[i].term.k = "Assign"
                           /\ OutDefs(s, b)[i].term.value.k = "BinOp"
                           /\ OutDefs(s, b)[i].term.value.op = "IntSub"
                      ELSE OutDefs(s, b)[i] = InDefs(s, b)[i]

(***************************************************************************)
(* Term<Def>::check_for_zero_extension (def.rs)                            *)
(***************************************************************************)

\* Option<Tid>
Some(x) == <<x>>
None == <<>>

\* As check_for_zero_extension, but accepting every cast operation.
check_for_any_extension(self, output_name, output_sub_register) ==
    IF /\ self.term.k = "Assign"
       /\ self.term.value.k = "Cast"
       /\ output_name = self.term.var.name
    THEN LET argument == self.term.value.arg
         IN  IF argument.k = "Var" /\ argument.var.name = output_sub_register
             THEN Some(self.tid)
             ELSE None
    ELSE None

\* check_for_zero_extension: the outer match arm with its guard, then the
\* inner match on the cast's argument.  The cast's size is not looked at.
check_for_zero_extension(self, output_name, output_sub_register) ==
    IF /\ self.term.k = "Assign"
       /\ self.term.value.k = "Cast"
       /\ self.term.value.op = "IntZExt"
       /\ output_name = self.term.var.name
    THEN LET argument == self.term.value.arg
         IN  IF argument.k = "Var" /\ argument.var.name = output_sub_register
             THEN Some(self.tid)
             ELSE None
    ELSE None

\* Inputs of the call: the registers of the unit test and one more, every
\* cast operation kind the claim names, and arguments that are a bare
\* variable, a compound expression, a constant or another cast.
EAX == Variable("EAX", 4)
ECX == Variable("ECX", 4)
ZextRegisters == {RAX, EAX, ECX}
ZextNames == {"RAX", "EAX", "ECX"}
CastOps == {"IntZExt", "IntSExt", "Int2Float", "PopCount"}
CastArgs ==
    {Var(v) : v \in ZextRegisters}
        \cup {BinOp("IntSub", Var(EAX), Var(ECX)),
              Const(IntBytes(1, 4)),
              Cast("IntZExt", Var(EAX))}
ZextValues ==
    CastArgs \cup {Cast(op, arg) : op \in CastOps, arg \in CastArgs}
ZextDefs ==
    {Assign(v, e) : v \in ZextRegisters, e \in ZextValues}
        \cup {Load(v, e) : v \in {RAX}, e \in ZextValues}
        \cup {Store(Var(RAX), e) : e \in ZextValues}
ZextTids == {Tid("zero_tid"), Tid("other_tid")}

\* The pass is not running while the function is called on its own.
InitZext ==
    /\ program = MkProgram(<<>>)
    /\ input = program
    /\ cpu_architecture = "x86_64"
    /\ stack_pointer_register = RSP
    /\ logs = <<>>
    /\ pc = "done"
    /\ f = 1
    /\ journaled_sp = Zero64
    /\ blk = 0
    /\ visited = {}
    /\ index = 0
    /\ d = 0
    /\ \E tid \in ZextTids, def \in ZextDefs, name \in ZextNames, sub_register \in ZextNames :
          zext = [self |-> Term(tid, def),
                  output_name |-> name,
                  output_sub_register |-> sub_register,
                  called |-> FALSE,
                  result |-> None]

\* One call: the result is what the function returns for the arguments.
CheckForZeroExtension ==
    /\ ~zext.called
    /\ zext' = [zext EXCEPT
                   !.called = TRUE,
                   !.result = check_for_zero_extension(
                                 zext.self, zext.output_name, zext.output_sub_register)]
    /\ UNCHANGED <<program, logs, pc, f, journaled_sp, blk, visited, index, d, args>>

NextZext == CheckForZeroExtension

SpecZext == InitZext /\ [][NextZext]_vars

\* The def is `v := IntZExt(a)` with a bare variable a, v named output_name
\* and a named output_sub_register.
IsZeroExtensionOf(def, name, sub_register) ==
    \E v \in ZextRegisters, a \in ZextRegisters :
        /\ def = Assign(v, Cast("IntZExt", Var(a)))
        /\ v.name = name
        /\ a.name = sub_register

\* C11: check_for_zero_extension returns the term's own Tid exactly if the
\* def assigns, to the variable named output_name, the zero extension of the
\* bare variable named output_sub_register; for every other def (Load, Store,
\* another cast, a zero extension of a compound expression, a differing name)
\* it returns none.
C11_ZeroExtensionCheck ==
    zext.called =>
        zext.result =
            IF IsZeroExtensionOf(zext.self.term, zext.output_name, zext.output_sub_register)
            THEN Some(zext.self.tid)
            ELSE None

\* The unit test's first case has been answered with the term's tid.
C11_Witness ==
    /\ zext.called
    /\ zext.self = Term(Tid("zero_tid"), Assign(RAX, Cast("IntZExt", Var(EAX))))
    /\ zext.output_name = "RAX"
    /\ zext.output_sub_register = "EAX"
    /\ zext.result = Some(Tid("zero_tid"))

(***************************************************************************)
(* C12                                                                     *)
(***************************************************************************)

\* The steps that call neither journal_sp_value nor substitute.
ControlStep ==
    \/ PassReturn
    \/ SubNoBlocks
    \/ SubStart
    \/ SearchFirstNotEmpty
    \/ SearchNoBranch
    \/ SearchRevisit
    \/ SearchNoTarget
    \/ SearchFound
    \/ SearchContinue
    \/ DefsExhausted
    \/ SkipDef
    \/ UnexpectedAssignment

\* The arms of `match op` at a binary operation assigned to SP; one of them
\* is enabled exactly if the def loop stands at such a def.
BinOpStep == JournalAdd \/ JournalSub \/ Substitute \/ Panic

\* The pass is one sequential computation: whenever it has a next step, it
\* takes it.  For the arms of `match op` the weak fairness condition is
\* written out with the def loop's position as the enabling condition.
FairSpec ==
    /\ Spec
    /\ WF_vars(ControlStep)
    /\ \/ []<>(~AtSpBinOp(OtherOps \cup {"IntAdd", "IntSub"}))
       \/ []<><<BinOpStep>>_vars

\* The tids of the def-less blocks of a block list.
DefLess(blocks) ==
    {blocks[i].tid : i \in {j \in 1..Len(blocks) : Len(blocks[j].term.defs) = 0}}

\* C12: the walk to the representative block is bounded.  Only def-less
\* blocks of the subroutine are ever in the visited set; every iteration that
\* goes on to another block newly inserts the current block, so the number of
\* def-less blocks not yet visited strictly decreases; standing on a block
\* that is already visited, the walk returns none and the subroutine is
\* skipped untouched.  Hence every walk ends, with an index or with none,
\* and the pass as a whole comes to its end.
C12_WalkTerminates ==
    /\ [](pc = "search" => visited \subseteq DefLess(Blocks))
    /\ [][pc = "search" /\ pc' = "search"
            => /\ CurBlk.tid \notin visited
               /\ visited' = visited \cup {CurBlk.tid}
               /\ Cardinality(DefLess(Blocks) \ visited')
                      < Cardinality(DefLess(Blocks) \ visited)]_vars
    /\ [][pc = "search" /\ CurBlk.tid \in visited
            => /\ pc' = "sub_loop"
               /\ f' = f + 1
               /\ program' = program
               /\ logs' = logs]_vars
    /\ [][pc = "search" /\ pc' # "search"
            => \/ pc' = "defs" /\ index' \in 1..Len(Blocks)
               \/ pc' = "sub_loop" /\ f' = f + 1]_vars
    /\ (pc = "search") ~> (pc # "search")
    /\ <>(pc \in {"done", "panic"})

\* The pass has returned on a Program one of whose subroutines is a cycle of
\* def-less blocks.
C12_Witness ==
    /\ pc = "done"
    /\ \E s \in 1..Len(input.subs) :
          LET blocks == input.subs[s].term.blocks
          IN  /\ Len(blocks) >= 2
              /\ BranchSucc(blocks, 1) = 2
              /\ BranchSucc(blocks, 2) = 1

(***************************************************************************)
(* C13                                                                     *)
(***************************************************************************)

\* The def loop stands at a Load or a Store.
AtLoadOrStore ==
    /\ pc = "defs"
    /\ d <= Len(Blocks[index].term.defs)
    /\ CurDef.term.k \in {"Load", "Store"}

\* The `sp := sp +/- c` defs among the first n defs, in their order.
AddSubOnly(defs, n) == SelectSeq(SubSeq(defs, 1, n), Journaled)

\* The constant an AND on SP at position i is rewritten with when nothing
\* but the add/sub defs before it counts.
OffsetOfAddSubs(defs, i) ==
    LET before == AddSubOnly(defs, i - 1)
    IN  OffsetResized(Append(before, defs[i]), Len(before) + 1)

\* Position i of the block holds an AND on SP that comes after another AND
\* on SP, a Load or a Store.
LaterAnd(defs, i) ==
    /\ AndOnSp(defs[i])
    /\ \E k \in 1..(i - 1) :
          AndOnSp(defs[k]) \/ defs[k].term.k \in {"Load", "Store"}

\* C13: a step taken at a binary operation on SP other than add and sub (the
\* substitution step) leaves journaled_sp as it was; a step taken at a Load
\* or a Store leaves journaled_sp, the Program and the log as they were and
\* goes on with the next def of the same block; and an AND on SP that the
\* walk has passed after an earlier AND, Load or Store reads `sp - c` with c
\* computed from the add/sub constants before it alone.
C13_SubstitutionNotJournaled ==
    /\ [][AtSpBinOp(OtherOps) => journaled_sp' = journaled_sp]_vars
    /\ [][AtLoadOrStore
            => /\ journaled_sp' = journaled_sp
               /\ program' = program
               /\ logs' = logs
               /\ pc' = "defs"
               /\ f' = f
               /\ index' = index
               /\ d' = d + 1]_vars
    /\ [](pc = "defs" =>
            /\ journaled_sp
                  = LET before == AddSubOnly(InDefs(f, index), d - 1)
                    IN  ExpectedJournal(before, Len(before))
            /\ \A i \in 1..(d - 1) :
                  LaterAnd(InDefs(f, index), i) =>
                      OutDefs(f, index)[i].term.value
                          = BinOp("IntSub", Var(stack_pointer_register),
                                  Const(OffsetOfAddSubs(InDefs(f, index), i))))

\* `sp := sp + 8; sp := sp AND -16; Load into sp; sp := sp AND -16` has
\* been walked: both ANDs read `sp - 8` and the journal is still 8.
C13_Witness ==
    /\ pc = "defs"
    /\ d = 5
    /\ Len(InDefs(f, index)) = 4
    /\ InDefs(f, index)[1].term
          = Assign(RSP, BinOp("IntAdd", Var(RSP), Const(IntBytes(8, 8))))
    /\ InDefs(f, index)[2].term = AndMask16
    /\ InDefs(f, index)[3].term = Load(RSP, Var(RAX))
    /\ InDefs(f, index)[4].term = AndMask16
    /\ OutDefs(f, index)[2].term
          = Assign(RSP, BinOp("IntSub", Var(RSP), Const(IntBytes(8, 8))))
    /\ OutDefs(f, index)[4].term = OutDefs(f, index)[2].term
    /\ journaled_sp = IntBytes(8, I64Bytes)

====
